---- MODULE Spec2Model ----
(***************************************************************************)
(* The item-tree API of api/routes.js: an in-memory collection db.items,   *)
(* the derived parent index itemsIndex, the uploads directory and the      *)
(* db.js file the collection is saved to.  Every Express handler is        *)
(* synchronous, so a handler is one atomic action; concurrent requests are *)
(* the orders in which their handlers run.                                 *)
(***************************************************************************)
EXTENDS Integers, Sequences, FiniteSets, TLC

\* ---- bounds of the model ----
\* requests the server handles in one run
MaxRequests == 2
\* files in one multipart request (the route allows up to 10)
MaxBatch == 3
\* facade calls the client makes in one run
MaxCalls == 3
\* files of one picked folder
MaxFiles == 2

\* ---- values ----
Null == "null"
Undefined == "undefined"
NoSuchId == "no-such-id"

\* the n-th uuidv4() value and the n-th file name generated by multer
Uuid(n) ==
    <<"u1", "u2", "u3", "u4", "u5", "u6", "u7", "u8", "u9", "u10", "u11", "u12",
      "u13", "u14", "u15", "u16">>[n]
MulterName(n) ==
    <<"m1", "m2", "m3", "m4", "m5", "m6", "m7", "m8", "m9", "m10", "m11", "m12",
      "m13", "m14", "m15", "m16">>[n]

\* A name is a sequence of characters; " " is the whitespace character.
RECURSIVE TrimStart(_)
TrimStart(s) ==
    IF s = <<>> THEN s
    ELSE IF Head(s) = " " THEN TrimStart(Tail(s)) ELSE s

RECURSIVE TrimEnd(_)
TrimEnd(s) ==
    IF s = <<>> THEN s
    ELSE IF s[Len(s)] = " " THEN TrimEnd(SubSeq(s, 1, Len(s) - 1)) ELSE s

\* a trim that removes nothing
Trim_Nothing(s) == s

\* String.prototype.trim
Trim(s) == TrimEnd(TrimStart(s))

\* request inputs
NameInputs == {<<>>, <<" ">>, <<"a">>, <<"a", " ">>}
FolderInputs == {"true", "false", Undefined}
FileInputs ==
    { [originalname |-> <<"a">>, size |-> 1, mimetype |-> "text/plain"],
      [originalname |-> <<"b">>, size |-> 2, mimetype |-> "image/png"] }

VARIABLES
    items,        \* db.items: the sequence of item records
    itemsIndex,   \* itemsIndex: parentId key -> sequence of references (ids)
    blobs,        \* names of the files present under api/uploads/, the one
                  \* directory multer writes and the handlers read
    persisted,    \* db.items as last written to db.js
    nextId,       \* number of uuidv4() values drawn so far, plus one
    nextBlob,     \* number of multer file names drawn so far, plus one
    now,          \* the wall clock
    resp,         \* the response to the request just handled
    handled,      \* number of requests handled so far
    \* the client: FileStateService, FileManagerFacade, the container component
    isLoading,        \* state.isLoading
    isUploading,      \* state.isUploading
    currentFolderId,  \* state.currentFolderId
    calls,            \* the observables the facade has returned, in call order
    subs,             \* the component's subscriptions to currentFolderId$
    routeInner,       \* the call that is the route listener's inner observable
    \* the client: one run of FolderService.uploadFolderWithStructure
    fsPc,               \* where the async function stands
    fsFiles,            \* its files argument, each file by its relative path
    fsCurrentFolderId,  \* its currentFolderId argument
    folderMap,          \* folderMap: directory path -> files, in insertion order
    sortedPaths,        \* sortedPaths of createFolderStructure
    fsIndex,            \* position of the loop that is running
    folderIdMap,        \* folderIdMap: directory path -> id of the folder created
    fsLog               \* the requests issued, in order, and how each settled

serverVars == <<items, itemsIndex, blobs, persisted, nextId, nextBlob, now, resp, handled>>
facadeVars == <<isLoading, isUploading, currentFolderId, calls, subs, routeInner>>
folderVars ==
    <<fsPc, fsFiles, fsCurrentFolderId, folderMap, sortedPaths, fsIndex, folderIdMap, fsLog>>
clientVars == <<facadeVars, folderVars>>
vars == <<serverVars, clientVars>>

\* ---- helpers over db.items ----
Ids(its) == {its[i].id : i \in 1..Len(its)}

\* what find() yields when no item matches (undefined)
NoItem ==
    [id |-> Undefined, parentId |-> Undefined, name |-> <<>>, folder |-> FALSE,
     filePath |-> Undefined, size |-> 0, mimeType |-> Undefined,
     creation |-> 0, modification |-> 0]

\* db.items.find(i => i.id === id): the first match, NoItem when none
FindById(its, id) ==
    IF \E i \in 1..Len(its) : its[i].id = id
    THEN its[CHOOSE i \in 1..Len(its) :
                 its[i].id = id /\ \A j \in 1..(i - 1) : its[j].id /= id]
    ELSE NoItem

\* db.items.findIndex(i => i.id === id): 0 stands for -1
FindIndex(its, id) ==
    IF \E i \in 1..Len(its) : its[i].id = id
    THEN CHOOSE i \in 1..Len(its) :
             its[i].id = id /\ \A j \in 1..(i - 1) : its[j].id /= id
    ELSE 0

\* a splice that removes the last element whatever the index
Splice_Last(its, index) == SubSeq(its, 1, Len(its) - 1)

\* db.items.splice(index, 1)
Splice(its, index) ==
    [i \in 1..(Len(its) - 1) |-> IF i < index THEN its[i] ELSE its[i + 1]]

\* parentId || null
OrNull(parentId) == IF parentId = Undefined THEN Null ELSE parentId

\* the keys of itemsIndex and, per key, the references pushed in db.items order
RECURSIVE IndexList(_, _)
IndexList(its, key) ==
    IF its = <<>> THEN <<>>
    ELSE IF Head(its).parentId = key
         THEN <<Head(its).id>> \o IndexList(Tail(its), key)
         ELSE IndexList(Tail(its), key)

buildItemsIndex(its) ==
    [key \in {its[i].parentId : i \in 1..Len(its)} |-> IndexList(its, key)]

\* saveDatabase writes the whole collection; ok = FALSE is writeFileSync throwing
saveDatabase(its, old, ok) == IF ok THEN its ELSE old

\* The response record: the route that answered, the status and code, and of
\* the body: id, the item answered or removed; name, the name a created
\* folder was asked under; items, the ids of the items answered; errors, the
\* file names of the per-file errors; files, the number of files the
\* request carried.  Fields a handler does not set keep these values.
NoResp ==
    [op |-> "none", status |-> 0, code |-> "", id |-> Undefined,
     name |-> <<>>, items |-> <<>>, errors |-> <<>>, files |-> 0]

Resp(op, status, code) == [NoResp EXCEPT !.op = op, !.status = status, !.code = code]

\* ---- initial state ----
\* db.js cut down to its first two items, a root folder and a file in it,
\* with names and blob name taken from the model's alphabet
SeedItems ==
    << [id |-> "folder-documents", parentId |-> Null, name |-> <<"a">>,
        folder |-> TRUE, filePath |-> Undefined, size |-> 0,
        mimeType |-> Undefined, creation |-> 0, modification |-> 0],
       [id |-> "file-pdf-1", parentId |-> "folder-documents", name |-> <<"b">>,
        folder |-> FALSE, filePath |-> "m0", size |-> 1,
        mimeType |-> "application/pdf", creation |-> 0, modification |-> 0] >>

Init ==
    /\ items = SeedItems
    /\ itemsIndex = buildItemsIndex(SeedItems)
    /\ blobs = {"m0"}
    /\ persisted = SeedItems
    /\ nextId = 1
    /\ nextBlob = 1
    /\ now = 1
    /\ resp = NoResp
    /\ handled = 0
    /\ isLoading = FALSE
    /\ isUploading = FALSE
    /\ currentFolderId = Null
    /\ calls = <<>>
    /\ subs = <<>>
    /\ routeInner = 0
    /\ fsPc = "idle"
    /\ fsFiles = <<>>
    /\ fsCurrentFolderId = Null
    /\ folderMap = <<>>
    /\ sortedPaths = <<>>
    /\ fsIndex = 0
    /\ folderIdMap = <<>>
    /\ fsLog = <<>>

\* the event loop is blocked for good once a handler has failed to return
Hung == resp.code = "NO_RESPONSE"

\* the server can take a request: it is not blocked, nor at the model's bound
Serving == ~Hung /\ handled < MaxRequests

\* the server takes the next request
Accept ==
    /\ Serving
    /\ handled' = handled + 1

\* the ids a client sends: one it has seen, or one that names no item
IdInputs == Ids(items) \cup {NoSuchId}
\* the ids handed out so far, and those of them whose item was removed since
Issued == Ids(SeedItems) \cup {Uuid(n) : n \in 1..(nextId - 1)}
GoneIds == Issued \ Ids(items)
\* the :itemId of a request: an id a client was once given, or one of no item
RouteIds == IdInputs \cup GoneIds
\* the parentId of a create request: absent, or an id
ParentInputs == {Undefined} \cup IdInputs
\* the fields of a PATCH body: absent (undefined) or a value; null is a value
NoName == <<Undefined>>
PatchParentInputs == {Undefined, Null} \cup IdInputs
PatchNameInputs == {NoName} \cup NameInputs

\* ---- POST /items, JSON body (create folder) ----
DuplicateFolder(its, parentId, name) ==
    \E i \in 1..Len(its) :
        /\ its[i].parentId = OrNull(parentId)
        /\ its[i].name = name
        /\ its[i].folder = TRUE

NewFolderItem(id, parentId, name, folder, t) ==
    [id |-> id, parentId |-> OrNull(parentId), name |-> Trim(name),
     folder |-> (folder = "true"), filePath |-> Undefined, size |-> 0,
     mimeType |-> Undefined, creation |-> t, modification |-> t]

CreateFolder(name, folder, parentId, ok) ==
    LET req == Resp("create", 0, "")
    IN
    /\ Accept
    /\ IF name = <<>> \/ folder = Undefined
       THEN /\ resp' = [req EXCEPT !.status = 400, !.code = "INVALID_INPUT"]
            /\ UNCHANGED <<items, itemsIndex, blobs, persisted, nextId, nextBlob, now>>
       ELSE IF DuplicateFolder(items, parentId, name)
       THEN /\ resp' = [req EXCEPT !.status = 409, !.code = "DUPLICATE_FOLDER"]
            /\ UNCHANGED <<items, itemsIndex, blobs, persisted, nextId, nextBlob, now>>
       ELSE /\ LET newItem == NewFolderItem(Uuid(nextId), parentId, name, folder, now)
                   its == Append(items, newItem)
               IN /\ items' = its
                  /\ itemsIndex' = buildItemsIndex(its)
                  /\ persisted' = saveDatabase(its, persisted, ok)
                  /\ resp' = IF ok
                             THEN [req EXCEPT !.status = 201, !.id = newItem.id,
                                              !.name = name]
                             ELSE [req EXCEPT !.status = 500, !.code = "SERVER_ERROR"]
            /\ nextId' = nextId + 1
            /\ now' = now + 1
            /\ UNCHANGED <<blobs, nextBlob>>

\* ---- POST /items, multipart body (upload files) ----
\* the duplicate test without the test on the kind of the existing item
DuplicateFile_AnyKind(its, parentId, originalname) ==
    \E i \in 1..Len(its) :
        /\ its[i].parentId = OrNull(parentId)
        /\ its[i].name = originalname

DuplicateFile(its, parentId, originalname) ==
    \E i \in 1..Len(its) :
        /\ its[i].parentId = OrNull(parentId)
        /\ its[i].name = originalname
        /\ its[i].folder = FALSE

\* the new item with a filePath other than the name multer stored the file under
NewFileItem_OtherPath(id, parentId, file, filename, t) ==
    [id |-> id, parentId |-> OrNull(parentId), name |-> file.originalname,
     folder |-> FALSE, filePath |-> "elsewhere", size |-> file.size,
     mimeType |-> file.mimetype, creation |-> t, modification |-> t]

NewFileItem(id, parentId, file, filename, t) ==
    [id |-> id, parentId |-> OrNull(parentId), name |-> file.originalname,
     folder |-> FALSE, filePath |-> filename, size |-> file.size,
     mimeType |-> file.mimetype, creation |-> t, modification |-> t]

\* req.files.forEach: file k of the batch was stored by multer as
\* MulterName(blob0 + k - 1); acc carries db.items, newItems and errors
RECURSIVE UploadLoop(_, _, _, _, _, _, _)
UploadLoop(files, k, parentId, id0, blob0, t, acc) ==
    IF k > Len(files) THEN acc
    ELSE IF DuplicateFile(acc.items, parentId, files[k].originalname)
    THEN UploadLoop(files, k + 1, parentId, id0, blob0, t,
                    [acc EXCEPT !.errors = Append(@, files[k].originalname)])
    ELSE LET newItem == NewFileItem(Uuid(id0 + Len(acc.newItems)), parentId,
                                    files[k], MulterName(blob0 + k - 1), t)
         IN UploadLoop(files, k + 1, parentId, id0, blob0, t,
                       [acc EXCEPT !.items = Append(@, newItem),
                                   !.newItems = Append(@, newItem.id)])

\* the batch answer with the test for "nothing was created" left out
UploadOutcome_NoPartial(created, failed) ==
    IF failed > 0 THEN <<400, "UPLOAD_FAILED">> ELSE <<201, "">>

\* the status and code answered for the batch
UploadOutcome(created, failed) ==
    IF failed > 0 /\ created = 0 THEN <<400, "UPLOAD_FAILED">>
    ELSE IF failed > 0 THEN <<207, "PARTIAL_SUCCESS">>
    ELSE <<201, "">>

UploadFiles(files, parentId, ok) ==
    LET req == [Resp("upload", 0, "") EXCEPT !.files = Len(files)]
    IN
    /\ Accept
    /\ LET out == UploadLoop(files, 1, parentId, nextId, nextBlob, now,
                             [items |-> items, newItems |-> <<>>, errors |-> <<>>])
           created == Len(out.newItems)
           failed == Len(out.errors)
           outcome == UploadOutcome(created, failed)
           saved == created = 0 \/ ok
       IN /\ blobs' = blobs \cup {MulterName(nextBlob + k - 1) : k \in 1..Len(files)}
          /\ nextBlob' = nextBlob + Len(files)
          /\ items' = out.items
          /\ itemsIndex' = IF created > 0 THEN buildItemsIndex(out.items) ELSE itemsIndex
          /\ persisted' = IF created > 0
                          THEN saveDatabase(out.items, persisted, ok) ELSE persisted
          /\ nextId' = nextId + created
          /\ now' = IF created > 0 THEN now + 1 ELSE now
          /\ resp' = IF saved
                     THEN [req EXCEPT !.status = outcome[1], !.code = outcome[2],
                                      !.items = out.newItems, !.errors = out.errors]
                     ELSE [req EXCEPT !.status = 500, !.code = "SERVER_ERROR"]

\* the batches of a multipart request
Batches == UNION {[1..n -> FileInputs] : n \in 1..MaxBatch}

\* ---- DELETE /items/:itemId ----
\* the emptiness test that finds no child
hasChildren_Never(its, id) == FALSE

\* the emptiness test counting folders only
hasChildren_FoldersOnly(its, id) ==
    \E i \in 1..Len(its) : its[i].parentId = id /\ its[i].folder

hasChildren(its, id) == \E i \in 1..Len(its) : its[i].parentId = id

\* the handler with db.items.splice moved before fs.unlinkSync
DeleteItem_EntryFirst(itemId, unlinkOk, ok) ==
    LET req == Resp("delete", 0, "")
        index == FindIndex(items, itemId)
        item == items[index]
    IN
    /\ Accept
    /\ IF index = 0
       THEN /\ resp' = [req EXCEPT !.status = 404, !.code = "NOT_FOUND"]
            /\ UNCHANGED <<items, itemsIndex, blobs, persisted>>
       ELSE IF item.folder /\ hasChildren(items, item.id)
       THEN /\ resp' = [req EXCEPT !.status = 400, !.code = "FOLDER_NOT_EMPTY"]
            /\ UNCHANGED <<items, itemsIndex, blobs, persisted>>
       ELSE IF ~item.folder /\ item.filePath /= Undefined
               /\ item.filePath \in blobs /\ ~unlinkOk
       THEN /\ resp' = [req EXCEPT !.status = 500, !.code = "SERVER_ERROR"]
            /\ items' = Splice(items, index)
            /\ UNCHANGED <<itemsIndex, blobs, persisted>>
       ELSE LET its == Splice(items, index)
            IN /\ blobs' = IF ~item.folder /\ item.filePath /= Undefined
                           THEN blobs \ {item.filePath} ELSE blobs
               /\ items' = its
               /\ itemsIndex' = buildItemsIndex(its)
               /\ persisted' = saveDatabase(its, persisted, ok)
               /\ resp' = IF ok THEN [req EXCEPT !.status = 204, !.id = itemId]
                          ELSE [req EXCEPT !.status = 500, !.code = "SERVER_ERROR"]
    /\ UNCHANGED <<nextId, nextBlob, now>>

DeleteItem(itemId, unlinkOk, ok) ==
    LET req == Resp("delete", 0, "")
        index == FindIndex(items, itemId)
        item == items[index]
    IN
    /\ Accept
    /\ IF index = 0
       THEN /\ resp' = [req EXCEPT !.status = 404, !.code = "NOT_FOUND"]
            /\ UNCHANGED <<items, itemsIndex, blobs, persisted>>
       ELSE IF item.folder /\ hasChildren(items, item.id)
       THEN /\ resp' = [req EXCEPT !.status = 400, !.code = "FOLDER_NOT_EMPTY"]
            /\ UNCHANGED <<items, itemsIndex, blobs, persisted>>
       ELSE IF ~item.folder /\ item.filePath /= Undefined
               /\ item.filePath \in blobs /\ ~unlinkOk
       \* fs.unlinkSync throws: nothing was removed
       THEN /\ resp' = [req EXCEPT !.status = 500, !.code = "SERVER_ERROR"]
            /\ UNCHANGED <<items, itemsIndex, blobs, persisted>>
       ELSE LET its == Splice(items, index)
            IN /\ blobs' = IF ~item.folder /\ item.filePath /= Undefined
                           THEN blobs \ {item.filePath} ELSE blobs
               /\ items' = its
               /\ itemsIndex' = buildItemsIndex(its)
               /\ persisted' = saveDatabase(its, persisted, ok)
               /\ resp' = IF ok THEN [req EXCEPT !.status = 204, !.id = itemId]
                          ELSE [req EXCEPT !.status = 500, !.code = "SERVER_ERROR"]
    /\ UNCHANGED <<nextId, nextBlob, now>>

\* ---- PATCH /items/:itemId (move or rename) ----
\* the assignment made on every item of db.items
SetField_Every(its, id, field, value) ==
    [i \in 1..Len(its) |-> [its[i] EXCEPT ![field] = value]]

\* item.field = value on the item object found in db.items
SetField(its, id, field, value) ==
    [i \in 1..Len(its) |->
        IF its[i].id = id THEN [its[i] EXCEPT ![field] = value] ELSE its[i]]

siblingExists(its, item, name) ==
    \E i \in 1..Len(its) :
        /\ its[i].parentId = item.parentId
        /\ its[i].name = name
        /\ its[i].id /= item.id

MoveOrRename(itemId, parentId, name, ok) ==
    LET req == Resp("patch", 0, "")
        found == FindById(items, itemId)
        \* db.items once the parentId block has run
        moved == IF parentId /= Undefined
                 THEN SetField(items, itemId, "parentId", parentId) ELSE items
        \* db.items once the name block has run
        renamed == IF name /= NoName
                   THEN SetField(moved, itemId, "name", name) ELSE moved
        its == SetField(renamed, itemId, "modification", now)
    IN
    /\ Accept
    /\ IF found = NoItem
       THEN /\ resp' = [req EXCEPT !.status = 404, !.code = "NOT_FOUND"]
            /\ UNCHANGED <<items, itemsIndex, persisted, now>>
       ELSE IF parentId /= Undefined /\ parentId = found.id
       THEN /\ resp' = [req EXCEPT !.status = 400, !.code = "INVALID_PARENT"]
            /\ UNCHANGED <<items, itemsIndex, persisted, now>>
       ELSE IF parentId \notin {Undefined, Null} /\ parentId \notin Ids(items)
       THEN /\ resp' = [req EXCEPT !.status = 404, !.code = "PARENT_NOT_FOUND"]
            /\ UNCHANGED <<items, itemsIndex, persisted, now>>
       ELSE IF name /= NoName /\ Trim(name) = <<>>
       \* answered after item.parentId was assigned
       THEN /\ resp' = [req EXCEPT !.status = 400, !.code = "INVALID_NAME"]
            /\ items' = moved
            /\ UNCHANGED <<itemsIndex, persisted, now>>
       ELSE IF name /= NoName /\ siblingExists(moved, FindById(moved, itemId), name)
       THEN /\ resp' = [req EXCEPT !.status = 409, !.code = "DUPLICATE_NAME"]
            /\ items' = moved
            /\ UNCHANGED <<itemsIndex, persisted, now>>
       ELSE /\ items' = its
            /\ itemsIndex' = buildItemsIndex(its)
            /\ persisted' = saveDatabase(its, persisted, ok)
            /\ now' = now + 1
            /\ resp' = IF ok THEN [req EXCEPT !.status = 200, !.id = itemId]
                       ELSE [req EXCEPT !.status = 500, !.code = "SERVER_ERROR"]
    /\ UNCHANGED <<blobs, nextId, nextBlob>>

\* ---- GET /items/:itemId/path ----
\* the while loop: pathItems.unshift(current), then current becomes the item
\* its parentId names, or null.  A walk longer than db.items has come back to
\* an item it already holds and repeats for ever: it is cut there with
\* returns = FALSE (the handler never answers).
RECURSIVE PathLoop(_, _, _)
PathLoop(its, current, pathItems) ==
    IF current = NoItem THEN [returns |-> TRUE, pathItems |-> pathItems]
    ELSE IF Len(pathItems) > Len(its) THEN [returns |-> FALSE, pathItems |-> pathItems]
    ELSE PathLoop(its,
                  IF current.parentId /= Null
                  THEN FindById(its, current.parentId) ELSE NoItem,
                  <<current.id>> \o pathItems)

GetPath(itemId) ==
    LET req == Resp("path", 0, "")
        current == FindById(items, itemId)
        walk == PathLoop(items, current, <<>>)
    IN
    /\ Accept
    /\ resp' = IF current = NoItem
               THEN [req EXCEPT !.status = 404, !.code = "NOT_FOUND"]
               ELSE IF ~walk.returns
               THEN [req EXCEPT !.code = "NO_RESPONSE"]
               ELSE [req EXCEPT !.status = 200, !.id = itemId, !.items = walk.pathItems]
    /\ UNCHANGED <<items, itemsIndex, blobs, persisted, nextId, nextBlob, now>>

\* ---- GET /items (list) ----
\* req.query.parentId || null, then itemsIndex[parentId] || [] or db.items;
\* the answer is recorded as the ids of the items answered, in order
ListItems(parentId) ==
    LET req == Resp("list", 200, "")
        key == OrNull(parentId)
        answered == IF key /= Null
                    THEN IF key \in DOMAIN itemsIndex THEN itemsIndex[key] ELSE <<>>
                    ELSE [i \in 1..Len(items) |-> items[i].id]
    IN
    /\ Accept
    /\ resp' = [req EXCEPT !.items = answered]
    /\ UNCHANGED <<items, itemsIndex, blobs, persisted, nextId, nextBlob, now>>

\* ---- GET /items/:itemId (download) ----
\* path.join throws on an undefined filePath (caught: 500), fs.existsSync
\* looks the blob up, res.download sends it
BlobAnswer(item) ==
    IF item.filePath = Undefined THEN <<500, "SERVER_ERROR">>
    ELSE IF item.filePath \notin blobs THEN <<404, "FILE_NOT_FOUND">>
    ELSE <<200, "">>

DownloadFile(itemId) ==
    LET req == Resp("download", 0, "")
        item == FindById(items, itemId)
        answer == BlobAnswer(item)
    IN
    /\ Accept
    /\ resp' = IF item = NoItem
               THEN [req EXCEPT !.status = 404, !.code = "NOT_FOUND"]
               ELSE IF item.folder
               THEN [req EXCEPT !.status = 400, !.code = "IS_FOLDER"]
               ELSE IF answer[1] /= 200
               THEN [req EXCEPT !.status = answer[1], !.code = answer[2]]
               ELSE [req EXCEPT !.status = 200, !.id = itemId, !.name = item.name]
    /\ UNCHANGED <<items, itemsIndex, blobs, persisted, nextId, nextBlob, now>>

\* ---- the server: one handler at a time ----
\* ok is the outcome of writeFileSync in saveDatabase and the second argument
\* of DeleteItem that of fs.unlinkSync; in Spec both always succeed.
Next ==
    \E ok \in {TRUE} :
        \/ /\ Serving
           /\ \E name \in NameInputs, folder \in FolderInputs, parentId \in ParentInputs :
                  CreateFolder(name, folder, parentId, ok)
           /\ UNCHANGED clientVars
        \/ /\ Serving
           /\ \E files \in Batches, parentId \in ParentInputs :
                  UploadFiles(files, parentId, ok)
           /\ UNCHANGED clientVars
        \/ /\ Serving
           /\ \E itemId \in RouteIds : DeleteItem(itemId, TRUE, ok)
           /\ UNCHANGED clientVars
        \/ /\ Serving
           /\ \E itemId \in RouteIds, parentId \in PatchParentInputs,
                 name \in PatchNameInputs :
                  MoveOrRename(itemId, parentId, name, ok)
           /\ UNCHANGED clientVars
        \/ /\ Serving
           /\ \E itemId \in RouteIds : GetPath(itemId)
           /\ UNCHANGED clientVars
        \/ /\ Serving
           /\ \E parentId \in ParentInputs : ListItems(parentId)
           /\ UNCHANGED clientVars
        \/ /\ Serving
           /\ \E itemId \in RouteIds : DownloadFile(itemId)
           /\ UNCHANGED clientVars

Spec == Init /\ [][Next]_vars

\* ---- the server on a disk that can fail ----
\* as Next, with writeFileSync and fs.unlinkSync free to throw
FaultNext ==
    \E ok \in BOOLEAN, unlinkOk \in BOOLEAN :
        \/ /\ Serving
           /\ \E name \in NameInputs, folder \in FolderInputs, parentId \in ParentInputs :
                  CreateFolder(name, folder, parentId, ok)
           /\ UNCHANGED clientVars
        \/ /\ Serving
           /\ \E files \in Batches, parentId \in ParentInputs :
                  UploadFiles(files, parentId, ok)
           /\ UNCHANGED clientVars
        \/ /\ Serving
           /\ \E itemId \in RouteIds : DeleteItem(itemId, unlinkOk, ok)
           /\ UNCHANGED clientVars
        \/ /\ Serving
           /\ \E itemId \in RouteIds, parentId \in PatchParentInputs,
                 name \in PatchNameInputs :
                  MoveOrRename(itemId, parentId, name, ok)
           /\ UNCHANGED clientVars
        \/ /\ Serving
           /\ \E itemId \in RouteIds : GetPath(itemId)
           /\ UNCHANGED clientVars
        \/ /\ Serving
           /\ \E parentId \in ParentInputs : ListItems(parentId)
           /\ UNCHANGED clientVars
        \/ /\ Serving
           /\ \E itemId \in RouteIds : DownloadFile(itemId)
           /\ UNCHANGED clientVars

FaultSpec == Init /\ [][FaultNext]_vars

\* ==== the Angular client ====
\* A string is a sequence of characters, as in the names above.

\* ---- core/utils: FileValidationService ----
maxFileSize == 100 * 1024 * 1024
allowedExtensions ==
    { <<".", "p", "d", "f">>, <<".", "d", "o", "c">>, <<".", "d", "o", "c", "x">>,
      <<".", "t", "x", "t">>, <<".", "j", "p", "g">>, <<".", "j", "p", "e", "g">>,
      <<".", "p", "n", "g">>, <<".", "g", "i", "f">>, <<".", "m", "p", "4">>,
      <<".", "a", "v", "i">>, <<".", "m", "o", "v">>, <<".", "z", "i", "p">>,
      <<".", "r", "a", "r">> }

\* String.prototype.toLowerCase, on the upper-case letters the inputs use
LowerChar(c) ==
    IF c = "T" THEN "t" ELSE IF c = "X" THEN "x" ELSE IF c = "P" THEN "p"
    ELSE IF c = "D" THEN "d" ELSE IF c = "F" THEN "f" ELSE c
toLowerCase(s) == [k \in 1..Len(s) |-> LowerChar(s[k])]

\* String.prototype.lastIndexOf, 1-based; 0 stands for -1
lastIndexOf(s, c) ==
    IF \E k \in 1..Len(s) : s[k] = c
    THEN CHOOSE k \in 1..Len(s) : s[k] = c /\ \A j \in (k + 1)..Len(s) : s[j] /= c
    ELSE 0

getFileExtension(fileName) ==
    LET lastDot == lastIndexOf(fileName, ".")
    IN IF lastDot = 0 THEN <<>>
       ELSE toLowerCase(SubSeq(fileName, lastDot, Len(fileName)))

hasValidExtension(fileName) == getFileExtension(fileName) \in allowedExtensions

\* a validation that looks at the list and the sizes only
validateFiles_SizeOnly(files) ==
    IF Len(files) = 0 THEN FALSE
    ELSE ~\E k \in 1..Len(files) : files[k].size > maxFileSize

\* validateFiles(files).valid
validateFiles(files) ==
    IF Len(files) = 0 THEN FALSE
    ELSE IF \E k \in 1..Len(files) : files[k].size > maxFileSize THEN FALSE
    ELSE IF \E k \in 1..Len(files) : ~hasValidExtension(files[k].name) THEN FALSE
    ELSE TRUE

\* the characters of /[<>:"/\\|?*]/
invalidChars == {"<", ">", ":", "\"", "/", "\\", "|", "?", "*"}
maxNameLength == 255

\* isValidFileName(name).valid
isValidFileName(name) ==
    IF name = <<>> \/ Trim(name) = <<>> THEN FALSE
    ELSE IF Len(name) > maxNameLength THEN FALSE
    ELSE IF \E k \in 1..Len(name) : name[k] \in invalidChars THEN FALSE
    ELSE TRUE

\* ---- inputs of the client ----
\* files the user can hand over: name and size in bytes
TxtFile == [name |-> <<"a", ".", "t", "x", "t">>, size |-> 1]
UpperFile == [name |-> <<"a", ".", "T", "X", "T">>, size |-> maxFileSize]
ExeFile == [name |-> <<"a", ".", "e", "x", "e">>, size |-> 1]
BigFile == [name |-> <<"a", ".", "p", "d", "f">>, size |-> maxFileSize + 1]
BareFile == [name |-> <<"a">>, size |-> 1]
TwoDotFile == [name |-> <<"a", ".", "e", ".", "p", "d", "f">>, size |-> 1]
ClientFiles == {TxtFile, UpperFile, ExeFile, BigFile, BareFile, TwoDotFile}
FileLists ==
    {<<>>} \cup {<<f>> : f \in ClientFiles}
           \cup {<<f, g>> : f \in {TxtFile, UpperFile}, g \in ClientFiles}
ClientNames == {<<>>, <<" ">>, <<"a">>, <<" ", "a">>, <<"a", "/">>, <<"a", "*">>}
\* what window.prompt gives: the text typed, or null when it is dismissed
Dismissed == <<Null>>
PromptAnswers == {Dismissed, <<>>, <<"a">>, <<"a", "/">>}
\* the file lists the user drops on the component
PickedFiles == {<<TxtFile>>, <<ExeFile>>}
\* the folderId / parentId argument of a facade method: string | undefined
FolderArgs == {Undefined, "folder-documents", "folder-images"}
\* currentFolderId || undefined
OrUndefined(folderId) == IF folderId = Null THEN Undefined ELSE folderId

\* ---- core/state: FileStateService, and what is subscribed to it ----
\* The client's state as one value: the operators below are the synchronous
\* code of the facade and of the component, composed in the order it runs.
ClientState ==
    [isLoading |-> isLoading, isUploading |-> isUploading,
     currentFolderId |-> currentFolderId, calls |-> calls, subs |-> subs,
     routeInner |-> routeInner]

Becomes(st) ==
    /\ isLoading' = st.isLoading
    /\ isUploading' = st.isUploading
    /\ currentFolderId' = st.currentFolderId
    /\ calls' = st.calls
    /\ subs' = st.subs
    /\ routeInner' = st.routeInner

setLoading(st, b) == [st EXCEPT !.isLoading = b]
setUploading(st, b) == [st EXCEPT !.isUploading = b]

\* One observable returned by a facade method, subscribed by its caller:
\* op the method, phase "request" (the method's own repository request is in
\* flight), "reload" (the chained loadItems request is in flight), "done"
\* (completed) or "cancelled" (unsubscribed); folderId the folder argument;
\* requests the repository calls made; notes the notifications shown; result
\* the value emitted; sub the component subscription that made the call, 0
\* when the facade is called directly.
Call(op, phase, folderId, requests, notes, result, sub) ==
    [op |-> op, phase |-> phase, folderId |-> folderId, requests |-> requests,
     notes |-> notes, result |-> result, sub |-> sub]
AddCall(st, c) == [st EXCEPT !.calls = Append(@, c)]
InFlight(c) == c.phase \in {"request", "reload"}

\* ---- core/facades: FileManagerFacade, the synchronous part of each method ----
loadItems(st, folderId, sub) ==
    AddCall(setLoading(st, TRUE),
            Call("loadItems", "request", folderId, 1, <<>>, "none", sub))

uploadFiles(st, files, parentId, sub) ==
    IF ~validateFiles(files)
    THEN AddCall(st, Call("uploadFiles", "done", parentId, 0, <<"error">>, "false", sub))
    ELSE AddCall(setUploading(st, TRUE),
                 Call("uploadFiles", "request", parentId, 1, <<>>, "none", sub))

createFolder(st, name, parentId, sub) ==
    IF ~isValidFileName(name)
    THEN AddCall(st, Call("createFolder", "done", parentId, 0, <<"error">>, "null", sub))
    ELSE AddCall(setLoading(st, TRUE),
                 Call("createFolder", "request", parentId, 1, <<>>, "none", sub))

deleteItem(st) ==
    AddCall(setLoading(st, TRUE),
            Call("deleteItem", "request", Undefined, 1, <<>>, "none", 0))

renameItem(st, oldName, newName) ==
    IF ~isValidFileName(newName)
    THEN AddCall(st, Call("renameItem", "done", Undefined, 0, <<"error">>, "null", 0))
    ELSE IF Trim(newName) = oldName
    THEN AddCall(st, Call("renameItem", "done", Undefined, 0, <<>>, "null", 0))
    ELSE AddCall(setLoading(st, TRUE),
                 Call("renameItem", "request", Undefined, 1, <<>>, "none", 0))

\* the finalize callbacks that run when the observable of call c ends or is
\* unsubscribed: the chained loadItems' own (in phase "reload"), then the
\* method's
Finalize(st, c) ==
    IF st.calls[c].op = "uploadFiles"
    THEN setUploading(IF st.calls[c].phase = "reload" THEN setLoading(st, FALSE) ELSE st,
                      FALSE)
    ELSE setLoading(st, FALSE)

\* unsubscribing from call c, as switchMap does with its previous inner
Unsubscribe(st, c) ==
    IF c = 0 \/ ~InFlight(st.calls[c]) THEN st
    ELSE [Finalize(st, c) EXCEPT !.calls[c].phase = "cancelled"]

\* ---- components/file-list: FileListContainerComponent ----
\* what subscription k does with a value of currentFolderId$: switchMap drops
\* its inner observable and projects the new value
React(st, k) ==
    LET s == st.subs[k]
        dropped == Unsubscribe(st, s.inner)
        folderId == OrUndefined(dropped.currentFolderId)
        projected == IF s.kind = "upload"
                     THEN uploadFiles(dropped, s.payload, folderId, k)
                     ELSE createFolder(dropped, s.payload, folderId, k)
    IN [projected EXCEPT !.subs[k].inner = Len(projected.calls)]

RECURSIVE Emit(_, _)
Emit(st, k) == IF k > Len(st.subs) THEN st ELSE Emit(React(st, k), k + 1)

\* setCurrentFolderId: state$.next, which currentFolderId$ passes on to its
\* subscribers when the value differs from the last one (distinctUntilChanged)
setCurrentFolderId(st, folderId) ==
    IF folderId = st.currentFolderId THEN st
    ELSE Emit([st EXCEPT !.currentFolderId = folderId], 1)

\* a subscription to currentFolderId$: it gets the current value at once
Subscribe(st, kind, payload) ==
    LET k == Len(st.subs) + 1
    IN React([st EXCEPT !.subs = Append(@, [kind |-> kind, payload |-> payload,
                                             folderAt |-> st.currentFolderId,
                                             inner |-> 0])], k)

\* ---- the client's steps ----
\* room for one more facade call
CanCall == Len(calls) < MaxCalls

CallLoadItems(folderId) ==
    /\ CanCall
    /\ Becomes(loadItems(ClientState, folderId, 0))

CallUploadFiles(files, parentId) ==
    /\ CanCall
    /\ Becomes(uploadFiles(ClientState, files, parentId, 0))

CallCreateFolder(name, parentId) ==
    /\ CanCall
    /\ Becomes(createFolder(ClientState, name, parentId, 0))

CallDeleteItem ==
    /\ CanCall
    /\ Becomes(deleteItem(ClientState))

CallRenameItem(oldName, newName) ==
    /\ CanCall
    /\ Becomes(renameItem(ClientState, oldName, newName))

\* the answer to the method's own request (upload, create, delete, rename):
\* on success the notification, then loadItems of the folder to show; on
\* failure the error notification, the fallback value and the finalize
RequestResponds(c, success) ==
    /\ c \in 1..Len(calls)
    /\ calls[c].op /= "loadItems"
    /\ calls[c].phase = "request"
    /\ LET st == ClientState
           reload == IF calls[c].op \in {"deleteItem", "renameItem"}
                     THEN OrUndefined(currentFolderId)
                     ELSE calls[c].folderId
       IN IF success
          THEN Becomes([setLoading(st, TRUE) EXCEPT
                            !.calls[c].phase = "reload",
                            !.calls[c].folderId = reload,
                            !.calls[c].requests = @ + 1,
                            !.calls[c].notes = Append(@, "success")])
          ELSE Becomes([Finalize(st, c) EXCEPT
                            !.calls[c].phase = "done",
                            !.calls[c].notes = Append(@, "error"),
                            !.calls[c].result =
                                IF calls[c].op \in {"uploadFiles", "deleteItem"}
                                THEN "false" ELSE "null"])

\* the answer to a getItems request of loadItems, called directly or chained:
\* tap (setItems, setCurrentFolderId and what its subscribers do), or on
\* failure catchError; then the finalize callbacks
GetItemsResponds(c, success) ==
    /\ c \in 1..Len(calls)
    /\ \/ calls[c].op = "loadItems" /\ calls[c].phase = "request"
       \/ calls[c].phase = "reload"
    /\ LET st == ClientState
           tapped == IF success
                     THEN setCurrentFolderId(st, OrNull(calls[c].folderId))
                     ELSE [st EXCEPT !.calls[c].notes = Append(@, "error")]
           value == IF calls[c].op = "loadItems" THEN "items"
                    ELSE IF calls[c].op \in {"uploadFiles", "deleteItem"} THEN "true"
                    ELSE "item"
           ended == IF tapped.calls[c].phase = "cancelled" THEN tapped
                    ELSE [Finalize(tapped, c) EXCEPT !.calls[c].phase = "done",
                                                    !.calls[c].result = value]
       IN /\ Len(ended.calls) <= MaxCalls
          /\ Becomes(ended)

\* initializeRouteListener: a navigation loads the folder of the route
RouteChange(folderId) ==
    /\ CanCall
    /\ LET dropped == Unsubscribe(ClientState, routeInner)
           loading == loadItems(dropped, OrUndefined(folderId), 0)
       IN Becomes([loading EXCEPT !.routeInner = Len(loading.calls)])

onFilesUpload(files) ==
    /\ CanCall
    /\ Becomes(Subscribe(ClientState, "upload", files))

\* promptCreateFolder answers with name, or Null when the prompt is dismissed;
\* filter(([name]) => !!name) lets nothing through for Null and for ""
onCreateFolder(name) ==
    /\ CanCall
    /\ IF name = Dismissed \/ name = <<>> THEN UNCHANGED facadeVars
       ELSE Becomes(Subscribe(ClientState, "create", name))

\* ---- services: FolderService.uploadFolderWithStructure ----
\* UTF-16 code units of the characters the paths use
CharCode(c) ==
    IF c = "-" THEN 45 ELSE IF c = "/" THEN 47 ELSE IF c = "a" THEN 97
    ELSE IF c = "b" THEN 98 ELSE IF c = "f" THEN 102 ELSE 103

\* s < t as Array.prototype.sort compares strings without a comparator
RECURSIVE StrLess(_, _)
StrLess(s, t) ==
    IF t = <<>> THEN FALSE
    ELSE IF s = <<>> THEN TRUE
    ELSE IF Head(s) = Head(t) THEN StrLess(Tail(s), Tail(t))
    ELSE CharCode(Head(s)) < CharCode(Head(t))

\* a sort in descending order
RECURSIVE SortStrings_Descending(_)
SortStrings_Descending(S) ==
    IF S = {} THEN <<>>
    ELSE LET m == CHOOSE x \in S : \A y \in S \ {x} : StrLess(y, x)
         IN <<m>> \o SortStrings_Descending(S \ {m})

\* Array.from(set).sort()
RECURSIVE SortStrings(_)
SortStrings(S) ==
    IF S = {} THEN <<>>
    ELSE LET m == CHOOSE x \in S : \A y \in S \ {x} : StrLess(x, y)
         IN <<m>> \o SortStrings(S \ {m})

\* String.prototype.split('/') and Array.prototype.join('/')
RECURSIVE Split(_)
Split(s) ==
    IF \E k \in 1..Len(s) : s[k] = "/"
    THEN LET k == CHOOSE k \in 1..Len(s) : s[k] = "/" /\ \A j \in 1..(k - 1) : s[j] /= "/"
         IN <<SubSeq(s, 1, k - 1)>> \o Split(SubSeq(s, k + 1, Len(s)))
    ELSE <<s>>

RECURSIVE Join(_)
Join(parts) ==
    IF parts = <<>> THEN <<>>
    ELSE IF Len(parts) = 1 THEN parts[1]
    ELSE parts[1] \o <<"/">> \o Join(Tail(parts))

\* pathParts.slice(0, -1).join('/')
DirOf(path) == LET pathParts == Split(path) IN Join(SubSeq(pathParts, 1, Len(pathParts) - 1))

\* the relative paths (webkitRelativePath) of the files of a picked folder
RelativePaths ==
    { <<"f">>, <<"a", "/", "f">>, <<"a", "/", "g">>, <<"a", "/", "b", "/", "f">>,
      <<"a", "-", "/", "f">>, <<"b", "/", "f">> }
RECURSIVE FilesUpTo(_)
FilesUpTo(n) ==
    IF n = 0 THEN {<<>>}
    ELSE FilesUpTo(n - 1) \cup
         {Append(fs, p) : fs \in {x \in FilesUpTo(n - 1) : Len(x) = n - 1}, p \in RelativePaths}
FolderUploads == FilesUpTo(MaxFiles) \ {<<>>}

\* organizeFolderStructure: folderPaths, every prefix of every file's path
folderPathsOf(files) ==
    UNION { {Join(SubSeq(Split(files[k]), 1, i)) : i \in 1..(Len(Split(files[k])) - 1)}
            : k \in 1..Len(files) }

\* organizeFolderStructure: folderMap, in the insertion order a Map keeps
RECURSIVE folderMapOf(_, _)
folderMapOf(files, m) ==
    IF files = <<>> THEN m
    ELSE LET file == Head(files)
             folderPath == DirOf(file)
         IN IF Len(Split(file)) <= 1 THEN folderMapOf(Tail(files), m)
            ELSE IF \E k \in 1..Len(m) : m[k].path = folderPath
            THEN LET k == CHOOSE k \in 1..Len(m) : m[k].path = folderPath
                 IN folderMapOf(Tail(files), [m EXCEPT ![k].files = Append(@, file)])
            ELSE folderMapOf(Tail(files),
                             Append(m, [path |-> folderPath, files |-> <<file>>]))

\* folderIdMap.get(path): Undefined when the map has no such key
MapGet(m, path) ==
    IF \E k \in 1..Len(m) : m[k].path = path
    THEN m[CHOOSE k \in 1..Len(m) : m[k].path = path].id
    ELSE Undefined

\* The service's run as one value, as for the facade.
FolderState ==
    [fsPc |-> fsPc, fsIndex |-> fsIndex, folderIdMap |-> folderIdMap, fsLog |-> fsLog,
     folderMap |-> folderMap, sortedPaths |-> sortedPaths,
     fsCurrentFolderId |-> fsCurrentFolderId]

FolderBecomes(st) ==
    /\ fsPc' = st.fsPc
    /\ fsIndex' = st.fsIndex
    /\ folderIdMap' = st.folderIdMap
    /\ fsLog' = st.fsLog
    /\ folderMap' = st.folderMap
    /\ sortedPaths' = st.sortedPaths
    /\ fsCurrentFolderId' = st.fsCurrentFolderId

\* uploadFilesToFolders from entry i of folderMap on, up to its next await: the
\* request for the entry, or the end of the run
uploadFilesToFolders(st, i) ==
    IF i > Len(st.folderMap) THEN [st EXCEPT !.fsPc = "resolved", !.fsIndex = i]
    ELSE LET entry == st.folderMap[i]
             folderId == MapGet(st.folderIdMap, entry.path)
         IN [st EXCEPT !.fsPc = "awaitUpload", !.fsIndex = i,
                       !.fsLog = Append(@, [kind |-> "uploadFiles", name |-> <<>>,
                                            path |-> entry.path, files |-> entry.files,
                                            target |-> folderId, settled |-> FALSE,
                                            ok |-> FALSE, id |-> Undefined])]

\* createFolderStructure from entry i of sortedPaths on, up to its next await
createFolderStructure(st, i) ==
    IF i > Len(st.sortedPaths) THEN uploadFilesToFolders(st, 1)
    ELSE LET folderPath == st.sortedPaths[i]
             pathParts == Split(folderPath)
             folderName == pathParts[Len(pathParts)]
             parentPath == DirOf(folderPath)
             parentId == IF parentPath /= <<>> THEN MapGet(st.folderIdMap, parentPath)
                         ELSE st.fsCurrentFolderId
         IN [st EXCEPT !.fsPc = "awaitCreate", !.fsIndex = i,
                       !.fsLog = Append(@, [kind |-> "createFolder", name |-> folderName,
                                            path |-> folderPath, files |-> <<>>,
                                            target |-> OrUndefined(parentId),
                                            settled |-> FALSE, ok |-> FALSE,
                                            id |-> Undefined])]

uploadFolderWithStructure(files, currentFolder) ==
    /\ fsPc = "idle"
    /\ fsFiles' = files
    /\ FolderBecomes(createFolderStructure(
           [FolderState EXCEPT !.folderMap = folderMapOf(files, <<>>),
                               !.sortedPaths = SortStrings(folderPathsOf(files)),
                               !.fsCurrentFolderId = currentFolder], 1))

\* the createFolder request settles: with the new folder's id, or with an error
CreateFolderSettles(success) ==
    /\ fsPc = "awaitCreate"
    /\ UNCHANGED fsFiles
    /\ LET n == Len(fsLog)
           id == Uuid(Len(folderIdMap) + 1)
           st == FolderState
       IN IF success
          THEN FolderBecomes(createFolderStructure(
                   [st EXCEPT !.fsLog[n].settled = TRUE, !.fsLog[n].ok = TRUE,
                              !.fsLog[n].id = id,
                              !.folderIdMap = Append(@, [path |-> sortedPaths[fsIndex],
                                                         id |-> id])],
                   fsIndex + 1))
          ELSE FolderBecomes([st EXCEPT !.fsLog[n].settled = TRUE, !.fsPc = "rejected"])

\* the uploadFiles request settles
UploadFilesSettles(success) ==
    /\ fsPc = "awaitUpload"
    /\ UNCHANGED fsFiles
    /\ LET n == Len(fsLog)
           st == FolderState
       IN IF success
          THEN FolderBecomes(uploadFilesToFolders(
                   [st EXCEPT !.fsLog[n].settled = TRUE, !.fsLog[n].ok = TRUE], fsIndex + 1))
          ELSE FolderBecomes([st EXCEPT !.fsLog[n].settled = TRUE, !.fsPc = "rejected"])

\* ---- the client's specifications ----
\* the facade called directly, its calls in any interleaving with the answers
FacadeNext ==
    \/ /\ \E folderId \in FolderArgs : CallLoadItems(folderId)
       /\ UNCHANGED <<serverVars, folderVars>>
    \/ /\ \E files \in FileLists, parentId \in FolderArgs : CallUploadFiles(files, parentId)
       /\ UNCHANGED <<serverVars, folderVars>>
    \/ /\ \E name \in ClientNames, parentId \in FolderArgs : CallCreateFolder(name, parentId)
       /\ UNCHANGED <<serverVars, folderVars>>
    \/ /\ CallDeleteItem
       /\ UNCHANGED <<serverVars, folderVars>>
    \/ /\ \E oldName \in {<<"a">>}, newName \in ClientNames : CallRenameItem(oldName, newName)
       /\ UNCHANGED <<serverVars, folderVars>>
    \/ /\ \E c \in 1..Len(calls), success \in BOOLEAN : RequestResponds(c, success)
       /\ UNCHANGED <<serverVars, folderVars>>
    \/ /\ \E c \in 1..Len(calls), success \in BOOLEAN : GetItemsResponds(c, success)
       /\ UNCHANGED <<serverVars, folderVars>>

FacadeSpec == Init /\ [][FacadeNext]_vars

\* the container component: its handlers, and the answers to the facade's requests
ComponentNext ==
    \/ /\ \E folderId \in {Null, "folder-documents", "folder-images"} : RouteChange(folderId)
       /\ UNCHANGED <<serverVars, folderVars>>
    \/ /\ \E files \in PickedFiles : onFilesUpload(files)
       /\ UNCHANGED <<serverVars, folderVars>>
    \/ /\ \E name \in PromptAnswers : onCreateFolder(name)
       /\ UNCHANGED <<serverVars, folderVars>>
    \/ /\ \E c \in 1..Len(calls), success \in BOOLEAN : RequestResponds(c, success)
       /\ UNCHANGED <<serverVars, folderVars>>
    \/ /\ \E c \in 1..Len(calls), success \in BOOLEAN : GetItemsResponds(c, success)
       /\ UNCHANGED <<serverVars, folderVars>>

ComponentSpec == Init /\ [][ComponentNext]_vars

\* one run of the folder upload and the answers to its requests
FolderNext ==
    \/ /\ \E files \in FolderUploads, currentFolder \in {Null, "folder-documents"} :
              uploadFolderWithStructure(files, currentFolder)
       /\ UNCHANGED <<serverVars, facadeVars>>
    \/ /\ \E success \in BOOLEAN : CreateFolderSettles(success)
       /\ UNCHANGED <<serverVars, facadeVars>>
    \/ /\ \E success \in BOOLEAN : UploadFilesSettles(success)
       /\ UNCHANGED <<serverVars, facadeVars>>

FolderSpec == Init /\ [][FolderNext]_vars

\* ---- the tree invariants of the data model ----
\* following parentId from id comes back to an item already visited
RECURSIVE ChainRevisits(_, _, _)
ChainRevisits(its, id, seen) ==
    IF id \in seen THEN TRUE
    ELSE IF id \notin Ids(its) THEN FALSE
    ELSE ChainRevisits(its, FindById(its, id).parentId, seen \cup {id})

Acyclic(its) == \A i \in 1..Len(its) : ~ChainRevisits(its, its[i].id, {})

\* anc is met on the parentId chain that starts at the parent of id
RECURSIVE HasAncestor(_, _, _, _)
HasAncestor(its, id, anc, seen) ==
    IF id \notin Ids(its) \/ id \in seen THEN FALSE
    ELSE LET up == FindById(its, id).parentId
         IN up = anc \/ HasAncestor(its, up, anc, seen \cup {id})

\* no two siblings of the same kind share a name
UniqueSiblings(its) ==
    \A i, j \in 1..Len(its) :
        (i /= j /\ its[i].parentId = its[j].parentId /\ its[i].folder = its[j].folder)
            => its[i].name /= its[j].name

\* every non-null parentId names an existing folder
ParentsAreFolders(its) ==
    \A i \in 1..Len(its) :
        its[i].parentId /= Null =>
            \E j \in 1..Len(its) : its[j].id = its[i].parentId /\ its[j].folder

ChildrenOf(its, id) == {i \in 1..Len(its) : its[i].parentId = id}

\* ---- claims ----

\* C1: a MoveOrRename that only moves an item under a folder leaves the
\* parent graph acyclic; when that folder is a descendant of the item the
\* call is answered INVALID_PARENT and changes no item.
C1_AcyclicMove ==
    [][resp'.op = "patch" =>
        \A itemId \in Ids(items), parentId \in Ids(items) :
            (/\ MoveOrRename(itemId, parentId, NoName, TRUE)
             /\ Acyclic(items) /\ ParentsAreFolders(items)
             /\ FindById(items, parentId).folder) =>
                IF HasAncestor(items, parentId, itemId, {})
                THEN resp'.code = "INVALID_PARENT" /\ items' = items
                ELSE Acyclic(items')]_vars

\* C2: a CreateFolder or UploadFiles call never leaves two folders, or two
\* files, with the same stored name under one parent.
C2_UniqueAfterCreate ==
    [][(resp'.op \in {"create", "upload"} /\ UniqueSiblings(items))
          => UniqueSiblings(items')]_vars

\* C3: a successful MoveOrRename from a well-formed tree without same-kind
\* siblings of equal name yields a state without them.
C3_UniqueAfterMove ==
    [][(/\ resp'.op = "patch" /\ resp'.status = 200
        /\ UniqueSiblings(items) /\ ParentsAreFolders(items) /\ Acyclic(items))
          => UniqueSiblings(items')]_vars

\* C4: in every reachable state every non-null parentId is the id of an
\* existing folder.
C4_ParentIntegrity == ParentsAreFolders(items)

\* C5: a MoveOrRename answered with an error changes no item and leaves the
\* parent index as it was.
C5_NoPartialChange ==
    [][(resp'.op = "patch"
        /\ resp'.code \in {"NOT_FOUND", "INVALID_PARENT", "PARENT_NOT_FOUND",
                           "INVALID_NAME", "DUPLICATE_NAME"})
          => (items' = items /\ itemsIndex' = itemsIndex /\ persisted' = persisted)]_vars

C7_GetPathTerminates == ~Hung

\* C8: the items GetPath answers are the parentId chain of the requested
\* item, root first: the first has parentId null, each later one has the one
\* before it as parent, and the requested item is last.
C8_PathIsChain ==
    (resp.op = "path" /\ resp.status = 200) =>
        LET path == [k \in 1..Len(resp.items) |-> FindById(items, resp.items[k])]
        IN /\ Len(path) >= 1
           /\ path[Len(path)].id = resp.id
           /\ path[1].parentId = Null
           /\ \A k \in 2..Len(path) : path[k].parentId = path[k - 1].id

\* C9: of two CreateFolder requests with the same name and parentId handled
\* one right after the other, at most one is answered 201.
C9_OneCreateWins ==
    [][(resp.op = "create" /\ resp.status = 201 /\ resp'.op = "create") =>
        LET first == FindById(items, resp.id)
        IN \A parentId \in ParentInputs :
               (first.folder /\ OrNull(parentId) = first.parentId
                /\ CreateFolder(resp.name, "true", parentId, TRUE))
                   => resp'.status /= 201]_vars

Collides(its, files, k, parentId) ==
    \/ \E i \in 1..Len(its) :
           /\ its[i].parentId = OrNull(parentId)
           /\ ~its[i].folder
           /\ its[i].name = files[k].originalname
    \/ \E j \in 1..(k - 1) : files[j].originalname = files[k].originalname

\* the position of k among the members of S, counted from 1
Rank(k, S) == Cardinality({m \in S : m <= k})

\* C11: an upload handles its files one by one, in order: a file that
\* collides with a file item under the parent, old or created earlier in the
\* batch, is reported as a duplicate and skipped, every other file is
\* created, and the batch is not aborted; of 3 files with exactly 1
\* collision, 2 items are created and 1 duplicate is reported.
C11_PerFileDuplicates ==
    [][resp'.op = "upload" =>
        \A files \in Batches, parentId \in ParentInputs :
            (Len(files) = resp'.files /\ UploadFiles(files, parentId, TRUE)) =>
                LET dup == {k \in 1..Len(files) : Collides(items, files, k, parentId)}
                    kept == (1..Len(files)) \ dup
                IN /\ resp'.code /= "SERVER_ERROR"
                   /\ Len(resp'.errors) = Cardinality(dup)
                   /\ \A k \in dup :
                          resp'.errors[Rank(k, dup)] = files[k].originalname
                   /\ Len(resp'.items) = Cardinality(kept)
                   /\ Len(items') = Len(items) + Cardinality(kept)
                   /\ \A i \in 1..Len(items) : items'[i] = items[i]
                   /\ \A k \in kept :
                          LET new == items'[Len(items) + Rank(k, kept)]
                          IN /\ new.id = resp'.items[Rank(k, kept)]
                             /\ new.name = files[k].originalname
                             /\ new.parentId = OrNull(parentId)
                             /\ ~new.folder
                   /\ (Len(files) = 3 /\ Cardinality(dup) = 1)
                          => (Len(resp'.items) = 2 /\ Len(resp'.errors) = 1)]_vars

\* three files were sent: two were created, one was a duplicate
C11_Witness ==
    /\ resp.op = "upload" /\ resp.files = 3 /\ resp.status = 207
    /\ Len(resp.items) = 2 /\ Len(resp.errors) = 1

\* C12: once a DeleteItem was answered 204 the item is gone for good: its id
\* is in no later db.items, in no list of the parent index and in no listing,
\* and every later download, delete, PATCH or path request for that id is
\* answered 404 NOT_FOUND (never FILE_NOT_FOUND).  In Spec an id handed out
\* that names no item is the id of an item a DeleteItem removed.
C12_DeletedStaysGone ==
    [][/\ (resp'.op = "delete" /\ resp'.status = 204) => resp'.id \in GoneIds'
       /\ \A id \in GoneIds :
             /\ id \in GoneIds'
             /\ \A key \in DOMAIN itemsIndex' :
                    \A k \in 1..Len(itemsIndex'[key]) : itemsIndex'[key][k] /= id
             /\ resp'.op \in {"list", "path"} =>
                    \A k \in 1..Len(resp'.items) : resp'.items[k] /= id
             /\ (\/ DownloadFile(id)
                 \/ DeleteItem(id, TRUE, TRUE)
                 \/ GetPath(id)
                 \/ \E parentId \in PatchParentInputs, name \in PatchNameInputs :
                        MoveOrRename(id, parentId, name, TRUE))
                    => (resp'.status = 404 /\ resp'.code = "NOT_FOUND")]_vars

\* the seed file was deleted and a later download was answered NOT_FOUND
C12_Witness ==
    /\ "file-pdf-1" \in GoneIds /\ "m0" \notin blobs
    /\ resp.op = "download" /\ resp.status = 404 /\ resp.code = "NOT_FOUND"

\* C13: a CreateFolder for a folder is answered 409 DUPLICATE_FOLDER exactly
\* when a folder under the same parent already has the name the new folder
\* would be stored under (the trimmed name), and then changes no item.
C13_DuplicateFolderRule ==
    [][resp'.op = "create" =>
        \A name \in NameInputs \ {<<>>}, parentId \in ParentInputs :
            CreateFolder(name, "true", parentId, TRUE) =>
                LET taken == \E i \in 1..Len(items) :
                                 /\ items[i].parentId = OrNull(parentId)
                                 /\ items[i].folder
                                 /\ items[i].name = Trim(name)
                IN /\ (resp'.status = 409 /\ resp'.code = "DUPLICATE_FOLDER") <=> taken
                   /\ resp'.code = "DUPLICATE_FOLDER" => items' = items]_vars

\* C14: a MoveOrRename with a name that passes the parent and name checks is
\* answered DUPLICATE_NAME exactly when another item of the target's kind
\* has that name under the resulting parent.
C14_RenameDuplicateRule ==
    [][resp'.op = "patch" =>
        \A itemId \in Ids(items), parentId \in PatchParentInputs, name \in NameInputs :
            (/\ MoveOrRename(itemId, parentId, name, TRUE)
             /\ resp'.code \notin {"INVALID_PARENT", "PARENT_NOT_FOUND", "INVALID_NAME"}) =>
                LET target == FindById(items, itemId)
                    resulting == IF parentId /= Undefined THEN parentId
                                 ELSE target.parentId
                    clash == \E i \in 1..Len(items) :
                                 /\ items[i].id /= itemId
                                 /\ items[i].folder = target.folder
                                 /\ items[i].name = name
                                 /\ items[i].parentId = resulting
                IN resp'.code = "DUPLICATE_NAME" <=> clash]_vars

\* C15: a MoveOrRename of an existing item that gives neither a parentId nor
\* a name is not answered 200 and changes no item.
C15_NeedsAField ==
    [][resp'.op = "patch" =>
        \A itemId \in Ids(items) :
            MoveOrRename(itemId, Undefined, NoName, TRUE) =>
                (resp'.status /= 200 /\ items' = items)]_vars

\* C16: in every reachable state the stored name of every item is non-empty.
C16_NonEmptyNames == \A i \in 1..Len(items) : items[i].name /= <<>>

\* C17: in every reachable state an item has a filePath exactly when it is
\* not a folder.
C17_KindBlob ==
    \A i \in 1..Len(items) : (items[i].filePath /= Undefined) <=> ~items[i].folder

\* C18: a listing for a parentId answers exactly the items whose parentId is
\* that id at the time of the request, each once, and a listing without
\* parentId answers all items.
C18_ListingConsistent ==
    [][resp'.op = "list" =>
        \A parentId \in ParentInputs :
            ListItems(parentId) =>
                LET key == OrNull(parentId)
                    expected == IF key /= Null
                                THEN {items[i].id : i \in {j \in 1..Len(items) :
                                                             items[j].parentId = key}}
                                ELSE Ids(items)
                IN /\ {resp'.items[k] : k \in 1..Len(resp'.items)} = expected
                   /\ Len(resp'.items) = Cardinality(expected)]_vars

\* C19: a mutating request that is answered 500 leaves db.items, and the
\* parent index the listings read, as they were before the request.
C19_DurableCommit ==
    [][(resp'.op \in {"create", "upload", "delete", "patch"} /\ resp'.status = 500)
          => (items' = items /\ itemsIndex' = itemsIndex)]_vars

\* C20: a download is answered NOT_FOUND when no item has the id, else
\* IS_FOLDER when the item is a folder, else FILE_NOT_FOUND when its blob is
\* not in the uploads directory, else 200 with the item's name; it changes
\* nothing.
C20_DownloadOutcomes ==
    [][resp'.op = "download" =>
        \A itemId \in RouteIds :
            DownloadFile(itemId) =>
                LET item == FindById(items, itemId)
                IN /\ IF item = NoItem
                      THEN resp'.status = 404 /\ resp'.code = "NOT_FOUND"
                      ELSE IF item.folder
                      THEN resp'.status = 400 /\ resp'.code = "IS_FOLDER"
                      ELSE IF item.filePath \notin blobs
                      THEN resp'.code = "FILE_NOT_FOUND"
                      ELSE resp'.status = 200 /\ resp'.name = item.name
                   /\ UNCHANGED <<items, itemsIndex, blobs, persisted>>]_vars

\* C21: every item an upload has just inserted is a file whose filePath
\* names a blob that is in the uploads directory, and in every reachable
\* state every filePath an item holds names a blob that is there.
C21_NoOrphanReference ==
    /\ \A i \in 1..Len(items) :
           items[i].filePath /= Undefined => items[i].filePath \in blobs
    /\ resp.op = "upload" =>
           \A k \in 1..Len(resp.items) :
               LET new == FindById(items, resp.items[k])
               IN /\ new /= NoItem
                  /\ ~new.folder
                  /\ new.filePath /= Undefined
                  /\ new.filePath \in blobs

\* an upload of two files was answered 201 and both blobs are stored
C21_Witness ==
    /\ resp.op = "upload" /\ resp.status = 201 /\ Len(resp.items) = 2
    /\ \A k \in 1..2 : FindById(items, resp.items[k]).filePath \in blobs

\* C22: a MoveOrRename answered 200 changes, of the target, the parentId and
\* the name as far as the request gives them and the modification time, and
\* nothing else: not the other fields of the target, not another item, not
\* the uploads directory; and no request ever changes the folder flag or the
\* creation time of an item that stays.
C22_MoveRenameFrame ==
    [][/\ \A i \in 1..Len(items), j \in 1..Len(items') :
              items[i].id = items'[j].id =>
                  /\ items'[j].folder = items[i].folder
                  /\ items'[j].creation = items[i].creation
       /\ (resp'.op = "patch" /\ resp'.status = 200) =>
              \A itemId \in Ids(items), parentId \in PatchParentInputs,
                 name \in PatchNameInputs :
                  MoveOrRename(itemId, parentId, name, TRUE) =>
                      /\ blobs' = blobs
                      /\ Len(items') = Len(items)
                      /\ \A i \in 1..Len(items) :
                             IF items[i].id /= itemId
                             THEN items'[i] = items[i]
                             ELSE items'[i] =
                                      [items[i] EXCEPT
                                          !.parentId = IF parentId /= Undefined
                                                       THEN parentId ELSE @,
                                          !.name = IF name /= NoName THEN name ELSE @,
                                          !.modification = now]]_vars

\* the seed file was moved to the root and renamed in one request
C22_Witness ==
    /\ resp.op = "patch" /\ resp.status = 200 /\ resp.id = "file-pdf-1"
    /\ LET moved == FindById(items, "file-pdf-1")
       IN /\ moved.parentId = Null
          /\ moved.name = <<"a", " ">>
          /\ moved.modification > moved.creation
          /\ moved.filePath \in blobs

\* the items that have id on their parentId chain
Descendants(its, id) == {x \in Ids(its) : HasAncestor(its, x, id, {})}

C25_BlobFirst ==
    [][resp'.op = "delete" =>
        \A itemId \in Ids(items), unlinkOk \in BOOLEAN, ok \in BOOLEAN :
            DeleteItem(itemId, unlinkOk, ok) =>
                LET item == FindById(items, itemId)
                IN /\ item.folder => blobs' = blobs
                   /\ (~item.folder /\ item.filePath \in blobs /\ ~unlinkOk) =>
                          /\ resp'.status = 500
                          /\ items' = items
                          /\ blobs' = blobs
                   /\ (~item.folder /\ itemId \notin Ids(items')) =>
                          item.filePath \notin blobs'
                   /\ resp'.status = 204 => Ids(items') = Ids(items) \ {itemId}]_vars

\* the DELETE of the seed file met a failing unlink: answered 500, the item
\* and its blob are where they were
C25_Witness ==
    /\ handled = 1 /\ resp.op = "delete" /\ resp.status = 500
    /\ items = SeedItems /\ persisted = SeedItems /\ "m0" \in blobs

\* C28: in every reachable state every blob in the uploads directory is the
\* filePath of exactly one item.
C28_NoOrphanBlob ==
    \A b \in blobs :
        Cardinality({i \in 1..Len(items) : items[i].filePath = b}) = 1

\* ---- the client's claims ----
\* the three ways the claim names for a file list to fail validateFiles
C26_Rejected(files) ==
    \/ Len(files) = 0
    \/ \E k \in 1..Len(files) : files[k].size > maxFileSize
    \/ \E k \in 1..Len(files) : getFileExtension(files[k].name) \notin allowedExtensions

\* the step added one call that made no repository call, and left every
\* earlier call as it was
C26_NoRequest ==
    /\ Len(calls') = Len(calls) + 1
    /\ calls'[Len(calls')].requests = 0
    /\ calls'[Len(calls')].phase = "done"
    /\ \A c \in 1..Len(calls) : calls'[c] = calls[c]

\* C26: facade.uploadFiles with an empty list, a file over 100MB or a file of
\* a disallowed extension calls no repository method, leaves isUploading as it
\* was, shows one error notification and emits false; createFolder and
\* renameItem with a name isValidFileName rejects call no repository method.
C26_ValidationGate ==
    [][/\ \A files \in FileLists, parentId \in FolderArgs :
              (C26_Rejected(files) /\ CallUploadFiles(files, parentId)) =>
                  /\ C26_NoRequest
                  /\ calls'[Len(calls')].op = "uploadFiles"
                  /\ calls'[Len(calls')].notes = <<"error">>
                  /\ calls'[Len(calls')].result = "false"
                  /\ isUploading' = isUploading
                  /\ isLoading' = isLoading
       /\ \A name \in ClientNames, parentId \in FolderArgs :
              (~isValidFileName(name) /\ CallCreateFolder(name, parentId)) =>
                  C26_NoRequest /\ calls'[Len(calls')].op = "createFolder"
       /\ \A oldName \in {<<"a">>}, newName \in ClientNames :
              (~isValidFileName(newName) /\ CallRenameItem(oldName, newName)) =>
                  C26_NoRequest /\ calls'[Len(calls')].op = "renameItem"]_vars

\* a rejected upload, a rejected createFolder and a rejected renameItem have
\* been made: none reached the repository and isUploading was never set
C26_Witness ==
    /\ Len(calls) = 3
    /\ calls[1] = Call("uploadFiles", "done", Undefined, 0, <<"error">>, "false", 0)
    /\ calls[2] = Call("createFolder", "done", Undefined, 0, <<"error">>, "null", 0)
    /\ calls[3] = Call("renameItem", "done", Undefined, 0, <<"error">>, "null", 0)
    /\ ~isUploading /\ ~isLoading

\* request j of the run created the folder of path and was answered with its id
C27_Created(j, path) ==
    /\ fsLog[j].kind = "createFolder"
    /\ fsLog[j].path = path
    /\ fsLog[j].settled /\ fsLog[j].ok

\* C27: uploadFolderWithStructure issues a request only when every earlier one
\* has settled; it creates a folder path after its parent path's folder, with
\* the id that creation returned as parentId (top-level paths go under the
\* currentFolderId argument); it uploads only after every folder path of the
\* files is created, each file into the folder created for its directory; and
\* after a failed createFolder it uploads nothing.
C27_SequentialFolderUpload ==
    /\ \A i \in 1..(Len(fsLog) - 1) : fsLog[i].settled
    /\ \A i \in 1..Len(fsLog) :
           fsLog[i].kind = "createFolder" =>
               /\ fsLog[i].name = Split(fsLog[i].path)[Len(Split(fsLog[i].path))]
               /\ IF DirOf(fsLog[i].path) = <<>>
                  THEN fsLog[i].target = OrUndefined(fsCurrentFolderId)
                  ELSE \E j \in 1..(i - 1) :
                           /\ C27_Created(j, DirOf(fsLog[i].path))
                           /\ fsLog[i].target = fsLog[j].id
    /\ \A i \in 1..Len(fsLog) :
           fsLog[i].kind = "uploadFiles" =>
               /\ \A path \in folderPathsOf(fsFiles) :
                      \E j \in 1..(i - 1) : C27_Created(j, path)
               /\ fsLog[i].files /= <<>>
               /\ \A f \in 1..Len(fsLog[i].files) :
                      \E j \in 1..(i - 1) :
                          /\ C27_Created(j, DirOf(fsLog[i].files[f]))
                          /\ fsLog[i].target = fsLog[j].id
    /\ (\E j \in 1..Len(fsLog) :
            fsLog[j].kind = "createFolder" /\ fsLog[j].settled /\ ~fsLog[j].ok) =>
           \A i \in 1..Len(fsLog) : fsLog[i].kind /= "uploadFiles"

\* the folder a with a/g and a/b/f was uploaded to the end: a, then a/b under
\* a's id, then the two uploads
C27_Witness ==
    /\ fsPc = "resolved"
    /\ Len(fsLog) = 4
    /\ fsLog[2].kind = "createFolder" /\ fsLog[2].path = <<"a", "/", "b">>
    /\ fsLog[2].target = fsLog[1].id
    /\ fsLog[3].kind = "uploadFiles" /\ fsLog[4].kind = "uploadFiles"
    /\ fsLog[3].target /= fsLog[4].target

\* the facade calls that subscription k of the component has made
C29_CallsOf(k) == {c \in 1..Len(calls) : calls[c].sub = k}

\* C29: every upload event of the component has made exactly one
\* facade.uploadFiles call and every answered create-folder prompt at most one
\* facade.createFolder call, each for the folder that was current at the
\* event, whatever currentFolderId$ has emitted since.
C29_OneIntentOneRequest ==
    \A k \in 1..Len(subs) :
        /\ subs[k].kind = "upload" => Cardinality(C29_CallsOf(k)) = 1
        /\ subs[k].kind = "create" => Cardinality(C29_CallsOf(k)) <= 1
        /\ \A c \in C29_CallsOf(k) : OrNull(calls[c].folderId) = subs[k].folderAt

\* a loadItems, createFolder, deleteItem or renameItem call is in flight
C30_Working ==
    \E c \in 1..Len(calls) :
        /\ calls[c].op \in {"loadItems", "createFolder", "deleteItem", "renameItem"}
        /\ InFlight(calls[c])

\* C30: isLoading is true while a loadItems, createFolder, deleteItem or
\* renameItem call has started and not yet completed or failed, and false
\* when no facade call is in flight.
C30_LoadingTracksInFlight ==
    /\ C30_Working => isLoading
    /\ (\A c \in 1..Len(calls) : ~InFlight(calls[c])) => ~isLoading
====
